---- MODULE Spec2Model ----
(***************************************************************************)
(* The message-orchestration pipeline of the language tutor and its        *)
(* file-backed conversation store.                                         *)
(*                                                                         *)
(*   src/src/simple_memory_service.py  SimpleMemoryService (the store)     *)
(*   src/src/langchain_service.py      LangChainTutorService (router and   *)
(*                                     executor)                           *)
(*   src/src/tutor_app.py              TutorApp (the orchestrator: the Tk  *)
(*                                     handlers, the get_response worker   *)
(*                                     thread, the store_in_mem0 threads)  *)
(***************************************************************************)
EXTENDS Integers, Sequences, FiniteSets, TLC

\* ------------------------------------------------------------------ bounds
MaxTurns == 2        \* turns (_send_message calls that start a worker) per run
MaxConvs == 2        \* conversation ids create_new_conversation may hand out
MaxClock == 5        \* Clear / successful store-level writes stop at this clock
MaxPrior == 8        \* longest conversation left on disk by an earlier session
MaxSends == 1        \* turns of a session in which the user only sends

\* ------------------------------------------------------- program constants
HistoryWindow == 6   \* conversation_history[-6:]
TitleLimit == 50     \* first_msg[:50]

\* ------------------------------------------------------------------ values
NoId == 0            \* None: no conversation selected / widget without id

VARIABLES
    store,                    \* conv id -> the record of conv_<id>.json
    clock,                    \* datetime.now(), a logical clock
    nextMsgId,                \* uuid4() of messages: fresh ids
    nextConvId,               \* uuid4()[:8] of conversations: fresh ids
    current_conversation_id,  \* TutorApp.current_conversation_id (NoId: None)
    message_widgets,          \* ChatArea.message_widgets: ids owning a delete button
    is_processing,            \* TutorApp.is_processing
    input_enabled,            \* InputBar.set_enabled
    pending_user_message,     \* TutorApp._pending_user_message
    mem0_available,           \* TutorApp.mem0 is not None
    mem0_records,             \* what mem0.add has stored
    worker,                   \* the get_response thread and its closure
    afterQueue,               \* callbacks queued with self.after(0, ...)
    mem0Threads,              \* store_in_mem0 threads started and not yet run
    turn,                     \* number of turns started
    ret,                      \* return value of the last store call
    called                    \* the last call made on the store from outside

vars == << store, clock, nextMsgId, nextConvId, current_conversation_id,
           message_widgets, is_processing, input_enabled, pending_user_message,
           mem0_available, mem0_records, worker, afterQueue, mem0Threads,
           turn, ret, called >>

ConvIds == 1..MaxConvs

Min(a, b) == IF a < b THEN a ELSE b
Max(a, b) == IF a > b THEN a ELSE b

\* ----------------------------------------------------------------- strings
\* A text is a record [kind, body, detail, len]: the template it was built
\* from, its variable parts and its length in characters.
Text(kind, body, detail, len) ==
    [kind |-> kind, body |-> body, detail |-> detail, len |-> len]

NoText == Text("none", "", "", 0)
NewChatTitle == Text("literal", "New Chat", "", 8)

\* What the user types; "order coffee" stands for a message of 51
\* characters, one more than a title keeps.
UserMessages ==
    { Text("user", "hola", "", 4),
      Text("user", "order coffee", "", 51) }

\* str(e) of the exceptions a model call can raise
Errors == { "timeout", "connection refused" }
ErrLen(e) == IF e = "timeout" THEN 7 ELSE 18

\* response.content of the execution models
LlmOutputs == { "  salida  " }
Strip(s) == IF s = "  salida  " THEN "salida" ELSE s
StrLen(s) == IF s = "salida" THEN 6 ELSE IF s = "  salida  " THEN 10 ELSE 0


\* A title is the first `take` characters of a text, then "..." or nothing.
TitleText(of, take, ellipsis) == [of |-> of, take |-> take, ellipsis |-> ellipsis]
DefaultTitle == TitleText(NewChatTitle, NewChatTitle.len, FALSE)

\* first_msg[:50] + ("..." if len(first_msg) > 50 else "")
TitleFrom(first_msg) ==
    TitleText(first_msg, Min(first_msg.len, TitleLimit), first_msg.len > TitleLimit)

\* ------------------------------------------------ the conversation store
\* One record per file conv_<id>.json; exists = FALSE: there is no such file;
\* readable = FALSE: the file holds a part of a JSON text only.
NoFile ==
    [exists |-> FALSE, readable |-> TRUE, title |-> DefaultTitle,
     created_at |-> 0, updated_at |-> 0, messages |-> << >>]

Returned(ok, val) == [ok |-> ok, val |-> val]

\* A call on the store: the operation, the conversation id and the message id
Called(op, cid, mid) == [op |-> op, cid |-> cid, mid |-> mid]
NoCalled == Called("none", 0, 0)

\* The state the handlers work on, as one record, so that a handler can call
\* another: S.store, S.clock, S.nextMsgId, S.nextConvId, S.cur, S.widgets, S.ret.
FileExists(S, cid) == cid \in DOMAIN S.store /\ S.store[cid].exists

Existing(S) == { c \in DOMAIN S.store : S.store[c].exists }

MessageIds(msgs) == { msgs[i].id : i \in 1..Len(msgs) }

RECURSIVE SortByCreated(_, _)
\* Mutant: key=created_at.
SortByCreated(S, ids) ==
    IF ids = {} THEN << >>
    ELSE LET top == CHOOSE c \in ids :
                        \A d \in ids : S.store[d].created_at <= S.store[c].created_at
         IN << top >> \o SortByCreated(S, ids \ {top})

RECURSIVE SortByUpdated(_, _)
\* conversations.sort(key=updated_at, reverse=True): ids, most recent first
SortByUpdated(S, ids) ==
    IF ids = {} THEN << >>
    ELSE LET top == CHOOSE c \in ids :
                        \A d \in ids : S.store[d].updated_at <= S.store[c].updated_at
         IN << top >> \o SortByUpdated(S, ids \ {top})

\* for filename in os.listdir(conv_dir): a file that cannot be parsed is
\* skipped; when the listing itself raises (S.listable is FALSE: the
\* directory cannot be listed), the outer except returns [].
get_all_conversations(S) ==
    IF ~S.listable THEN << >>
    ELSE SortByUpdated(S, { c \in Existing(S) : S.store[c].readable })

create_new_conversation(S) ==
    LET conv_id == S.nextConvId
    IN [S EXCEPT !.store[conv_id] =
                     [exists |-> TRUE, readable |-> TRUE, title |-> DefaultTitle,
                      created_at |-> S.clock, updated_at |-> S.clock,
                      messages |-> << >>],
                 !.clock = @ + 1,
                 !.nextConvId = @ + 1,
                 !.ret = Returned(TRUE, conv_id)]

load_conversation(S, cid) ==
    IF FileExists(S, cid) THEN S.store[cid].messages ELSE << >>

\* Mutant: a missing file is opened for writing, which creates it.
add_message_CreatesFile(S, cid, role, content) ==
    LET message == [id |-> S.nextMsgId, role |-> role,
                    content |-> content, timestamp |-> S.clock]
        data == IF FileExists(S, cid) THEN S.store[cid]
                ELSE [exists |-> TRUE, readable |-> TRUE, title |-> DefaultTitle,
                      created_at |-> S.clock, updated_at |-> S.clock,
                      messages |-> << >>]
    IN [S EXCEPT !.store[cid] = [data EXCEPT !.messages = Append(@, message),
                                             !.updated_at = S.clock],
                 !.clock = @ + 1,
                 !.nextMsgId = @ + 1,
                 !.ret = Returned(TRUE, 0)]

\* if not os.path.exists(filepath): return False; else append a message with
\* a fresh uuid4 id, stamp updated_at, write the file, return True
add_message_to_conversation(S, cid, role, content) ==
    IF ~FileExists(S, cid) THEN [S EXCEPT !.ret = Returned(FALSE, 0)]
    ELSE LET message == [id |-> S.nextMsgId, role |-> role,
                         content |-> content, timestamp |-> S.clock]
         IN [S EXCEPT !.store[cid].messages = Append(@, message),
                      !.store[cid].updated_at = S.clock,
                      !.clock = @ + 1,
                      !.nextMsgId = @ + 1,
                      !.ret = Returned(TRUE, 0)]

update_conversation_title(S, cid, title) ==
    IF ~FileExists(S, cid) THEN [S EXCEPT !.ret = Returned(FALSE, 0)]
    ELSE [S EXCEPT !.store[cid].title = title,
                   !.store[cid].updated_at = S.clock,
                   !.clock = @ + 1,
                   !.ret = Returned(TRUE, 0)]

\* Mutant: the surviving messages are written back newest first.
WithoutId_NewestFirst(msgs, message_id) ==
    LET kept == SelectSeq(msgs, LAMBDA m : m.id # message_id)
    IN [i \in 1..Len(kept) |-> kept[Len(kept) + 1 - i]]

\* [msg for msg in data['messages'] if msg.get('id') != message_id]
WithoutId(msgs, message_id) == SelectSeq(msgs, LAMBDA m : m.id # message_id)

\* Mutant: the record is stamped and written back whether or not a message
\* was removed.
delete_message_AlwaysWrites(S, cid, message_id) ==
    IF ~FileExists(S, cid) THEN [S EXCEPT !.ret = Returned(FALSE, 0)]
    ELSE [S EXCEPT !.store[cid].messages = WithoutId(@, message_id),
                   !.store[cid].updated_at = S.clock,
                   !.clock = @ + 1,
                   !.ret = Returned(TRUE, 0)]

delete_message_from_conversation(S, cid, message_id) ==
    IF ~FileExists(S, cid) THEN [S EXCEPT !.ret = Returned(FALSE, 0)]
    ELSE LET kept == WithoutId(S.store[cid].messages, message_id)
         IN IF Len(kept) = Len(S.store[cid].messages)
            THEN [S EXCEPT !.ret = Returned(FALSE, 0)]
            ELSE [S EXCEPT !.store[cid].messages = kept,
                           !.store[cid].updated_at = S.clock,
                           !.clock = @ + 1,
                           !.ret = Returned(TRUE, 0)]

\* Mutant: the record is written afresh, as create_new_conversation writes it.
clear_conversation_Recreates(S, cid) ==
    IF ~FileExists(S, cid) THEN [S EXCEPT !.ret = Returned(FALSE, 0)]
    ELSE [S EXCEPT !.store[cid].messages = << >>,
                   !.store[cid].title = DefaultTitle,
                   !.store[cid].updated_at = S.clock,
                   !.clock = @ + 1,
                   !.ret = Returned(TRUE, 0)]

\* data['messages'] = []; data['updated_at'] = now; the rest is kept
clear_conversation(S, cid) ==
    IF ~FileExists(S, cid) THEN [S EXCEPT !.ret = Returned(FALSE, 0)]
    ELSE [S EXCEPT !.store[cid].messages = << >>,
                   !.store[cid].updated_at = S.clock,
                   !.clock = @ + 1,
                   !.ret = Returned(TRUE, 0)]

\* Mutant: the file is kept and its messages are removed.
delete_conversation_EmptiesOnly(S, cid) ==
    IF FileExists(S, cid)
    THEN [S EXCEPT !.store[cid].messages = << >>, !.ret = Returned(TRUE, 0)]
    ELSE [S EXCEPT !.ret = Returned(FALSE, 0)]

\* if os.path.exists(filepath): os.remove(filepath); return True
delete_conversation(S, cid) ==
    IF FileExists(S, cid)
    THEN [S EXCEPT !.store[cid] = NoFile, !.ret = Returned(TRUE, 0)]
    ELSE [S EXCEPT !.ret = Returned(FALSE, 0)]


\* ------------------------------------------ TutorApp: conversation handlers
_select_conversation(S, conversation_id) ==
    [S EXCEPT !.cur = conversation_id,
              !.widgets = MessageIds(load_conversation(S, conversation_id))]

RECURSIVE _new_chat(_), _load_conversations(_)

_load_conversations(S) ==
    LET conversations == get_all_conversations(S)
    IN IF conversations # << >> /\ S.cur = NoId
       THEN _select_conversation(S, conversations[1])
       ELSE IF conversations = << >> THEN _new_chat(S) ELSE S

\* _new_chat and _load_conversations call each other with nothing that
\* counts the calls: the chain ends when a listing is not empty, or with the
\* RecursionError of the interpreter, which the except of the innermost
\* frame catches (every frame then returns). Here the chain is cut where the
\* conversation ids of the model end.
_new_chat(S) ==
    IF S.nextConvId > MaxConvs THEN S
    ELSE LET S1 == create_new_conversation(S)
         IN _load_conversations([S1 EXCEPT !.cur = S1.ret.val, !.widgets = {}])

_delete_conversation(S, conversation_id) ==
    LET S1 == delete_conversation(S, conversation_id)
        conversations == get_all_conversations(S1)
    IN IF conversation_id = S.cur
       THEN IF conversations # << >>
            THEN _select_conversation(S1, conversations[1])
            ELSE _new_chat(S1)
       ELSE _load_conversations(S1)

_update_conversation_title(S) ==
    IF S.cur = NoId THEN S
    ELSE LET messages == load_conversation(S, S.cur)
         IN IF Len(messages) >= 1
            THEN _load_conversations(
                     update_conversation_title(S, S.cur, TitleFrom(messages[1].content)))
            ELSE S

_delete_message(S, message_id) ==
    IF S.cur = NoId THEN S
    ELSE LET S1 == delete_message_from_conversation(S, S.cur, message_id)
         IN [S1 EXCEPT !.widgets = MessageIds(load_conversation(S1, S1.cur))]

_clear_chat(S) ==
    IF S.cur = NoId THEN S
    ELSE [clear_conversation(S, S.cur) EXCEPT !.widgets = {}]

\* ------------------------------------------------------ the intent router
TUTOR_TOOLS == { "translate", "teach", "exercise", "chat" }

\* Names the routing model can put in a tool call: the schema's, and one that
\* is not in the schema (nothing constrains the model's output to it).
ToolCallNames == TUTOR_TOOLS \cup { "summarize" }

\* tool_call.function.arguments as the backend hands it over:
\*   mapping/full, mapping/empty   a dict, with or without the tool's fields
\*   str/full, str/empty           a JSON string of such a dict
\*   str/list                      a JSON string of something that is no dict
\*   str/bad                       a string json.loads rejects
\*   other/none                    neither a string nor a dict (None)
ArgPayloads ==
    { [form |-> "mapping", value |-> "full"], [form |-> "mapping", value |-> "empty"],
      [form |-> "str", value |-> "full"], [form |-> "str", value |-> "empty"],
      [form |-> "str", value |-> "list"], [form |-> "str", value |-> "bad"],
      [form |-> "other", value |-> "none"] }

NoPayload == [form |-> "none", value |-> "none"]

\* What ollama.chat does: a tool call, plain text (content a str or None),
\* or an exception.
RouterResponses ==
    { [kind |-> "tool_call", name |-> n, payload |-> a, err |-> ""] :
          n \in ToolCallNames, a \in ArgPayloads }
    \cup { [kind |-> "text", name |-> c, payload |-> NoPayload, err |-> ""] :
          c \in { "content", "None" } }
    \cup { [kind |-> "raise", name |-> "", payload |-> NoPayload, err |-> e] :
          e \in Errors }

NoResponse == [kind |-> "none", name |-> "", payload |-> NoPayload, err |-> ""]

\* The decoded arguments: "full" and "empty" are dicts, "nonmap" is not.
\* if isinstance(tool_args, str): try json.loads except: {}
DecodeArgs(payload) ==
    IF payload.form = "str"
    THEN IF payload.value = "bad" THEN "empty"
         ELSE IF payload.value = "list" THEN "nonmap"
         ELSE payload.value
    ELSE IF payload.form = "mapping" THEN payload.value
    ELSE "nonmap"

Route(raised, tool, args) == [raised |-> raised, tool |-> tool, args |-> args]
NoRoute == Route(FALSE, "", "")

\* Mutant: no try/except around the routing call.
_route_message_NoCatch(response) ==
    IF response.kind = "raise" THEN Route(TRUE, "", "")
    ELSE IF response.kind = "tool_call"
    THEN Route(FALSE, response.name, DecodeArgs(response.payload))
    ELSE IF response.name = "None" THEN Route(TRUE, "", "")
    ELSE Route(FALSE, "chat", "empty")

\* try:
\*     response = ollama.chat(...)                    (may raise)
\*     if response.message.tool_calls: return {"tool": name, "args": args}
\*     else: ... response.message.content[:100] ...   (raises on None)
\*           return {"tool": "chat", "args": {}}
\* except Exception: return {"tool": "chat", "args": {}}
_route_message(response) ==
    IF response.kind = "raise" THEN Route(FALSE, "chat", "empty")
    ELSE IF response.kind = "tool_call"
    THEN Route(FALSE, response.name, DecodeArgs(response.payload))
    ELSE IF response.name = "None" THEN Route(FALSE, "chat", "empty")
    ELSE Route(FALSE, "chat", "empty")

\* ------------------------------------------------------- the task executor
\* What llm.invoke does: a response with content, or an exception.
LlmOutcomes ==
    { [ok |-> TRUE, content |-> c, err |-> ""] : c \in LlmOutputs }
    \cup { [ok |-> FALSE, content |-> "", err |-> e] : e \in Errors }

\* str(e) of args.get(...) on arguments that are no dict
AttributeError == "'list' object has no attribute 'get'"
ErrorLen(e) == IF e = AttributeError THEN 36 ELSE ErrLen(e)

\* Mutant: conversation_history[:6], the oldest messages.
RecentHistory_Oldest(conversation_history) ==
    LET recent == SubSeq(conversation_history, 1,
                         Min(Len(conversation_history), HistoryWindow))
    IN [i \in 1..Len(recent) |->
            [role |-> recent[i].role, content |-> recent[i].content]]

\* conversation_history[-6:], each message as the line f"{role}: {content}..."
\* (content[:200] keeps the whole of the short contents of this model)
RecentHistory(conversation_history) ==
    LET n == Len(conversation_history)
        recent == SubSeq(conversation_history, Max(1, n - HistoryWindow + 1), n)
    IN [i \in 1..Len(recent) |->
            [role |-> recent[i].role, content |-> recent[i].content]]

\* One model call: which model, and the parts of the prompt that vary.
Call(llm, task, memories, conv) ==
    [llm |-> llm, task |-> task, memories |-> memories, conv |-> conv]
NoCall == Call("none", "", << >>, << >>)
RouterCall == Call("functiongemma", "route", << >>, << >>)

Executed(raised, err, reply, call) ==
    [raised |-> raised, err |-> err, reply |-> reply, call |-> call]

\* f"Sorry, I encountered an error: {e}"
SorryError(e) == Text("sorry_error", "", e, 31 + ErrorLen(e))
\* f"Sorry, I had trouble translating that: {e}"
SorryTranslating(e) == Text("sorry_translating", "", e, 39 + ErrorLen(e))
\* f"Here's the translation to {target}:\n\n**{translation}**\n\nWould you ..."
\* (target: "args", the routed target_language "French", or "profile", the
\* profile's "Spanish")
HereIsTranslation(target, translation) ==
    Text("translation", translation, target,
         84 + (IF target = "args" THEN 6 ELSE 7) + StrLen(translation))

\* args.get(key, default): raises AttributeError when args is no dict
ArgsOrDefault(args, default) == IF args = "full" THEN "args" ELSE default

_execute_and_respond(tool, args, user_message, memories, conversation_history, outcome) ==
    LET conv_lines == RecentHistory(conversation_history)
    IN IF tool = "translate"
       THEN IF args = "nonmap"
            THEN Executed(TRUE, AttributeError, NoText, NoCall)
            ELSE LET target == ArgsOrDefault(args, "profile")
                     call == Call("translation", ArgsOrDefault(args, "message"),
                                  << >>, << >>)
                 IN IF outcome.ok
                    THEN Executed(FALSE, "",
                                  HereIsTranslation(target, Strip(outcome.content)), call)
                    ELSE Executed(FALSE, "", SorryTranslating(outcome.err), call)
       ELSE IF tool \in { "teach", "exercise" } /\ args = "nonmap"
       THEN Executed(TRUE, AttributeError, NoText, NoCall)
       ELSE LET call == Call("reasoning",
                             IF tool \in { "teach", "exercise" } THEN tool ELSE "chat",
                             memories,
                             IF tool \in { "teach", "exercise" } THEN << >> ELSE conv_lines)
            IN IF outcome.ok
               THEN Executed(FALSE, "",
                             Text("answer", Strip(outcome.content), "",
                                  StrLen(Strip(outcome.content))), call)
               ELSE Executed(FALSE, "", SorryError(outcome.err), call)

\* The value chat_with_tutor hands back, or the exception that leaves it.
Result(raised, success, response, error, tool_used) ==
    [raised |-> raised, success |-> success, response |-> response,
     error |-> error, tool_used |-> tool_used]

\* Mutant: no try/except in chat_with_tutor.
chat_with_tutor_NoCatch(route, executed) ==
    IF route.raised \/ executed.raised
    THEN Result(TRUE, FALSE, NoText,
                IF route.raised THEN "routing" ELSE executed.err, "")
    ELSE Result(FALSE, TRUE, executed.reply, "",
                IF route.tool # "chat" THEN route.tool ELSE "None")

\* try: route; execute; return {'success': True, ...}
\* except Exception as e: return {'success': False, 'error': str(e)}
chat_with_tutor(route, executed) ==
    IF route.raised \/ executed.raised
    THEN Result(FALSE, FALSE, NoText,
                IF route.raised THEN "routing" ELSE executed.err, "")
    ELSE Result(FALSE, TRUE, executed.reply, "",
                IF route.tool # "chat" THEN route.tool ELSE "None")

\* A callback handed to self.after(0, ...): the reply it delivers; unbound:
\* the lambda reads the variable e of an except block that has ended.
Callback(response, unbound) == [response |-> response, unbound |-> unbound]

\* Mutant: the success-False branch hands over a lambda that reads e, as the
\* except branch does.
get_response_Unbound(result) ==
    IF result.raised THEN Callback(SorryError(result.error), TRUE)
    ELSE IF result.success THEN Callback(result.response, FALSE)
    ELSE Callback(SorryError(result.error), TRUE)

\* get_response: success -> the response; success False -> an apology with the
\* error; an exception of chat_with_tutor -> the except branch's lambda.
get_response(result) ==
    IF result.raised THEN Callback(SorryError(result.error), TRUE)
    ELSE IF result.success THEN Callback(result.response, FALSE)
    ELSE Callback(SorryError(result.error), FALSE)


\* ------------------------------------------------ the semantic memory index
\* One entry of a search result: a dict holding its text under "memory" or
\* "text" (or under neither), a str, or some other object (value: its str()).
Item(type, key, value) == [type |-> type, key |-> key, value |-> value]

ItemLists ==
    { << >>,
      << Item("dict", "memory", "likes tacos") >>,
      << Item("str", "none", "lives in Lima"), Item("dict", "text", ""),
         Item("dict", "text", "studies at night") >> }

\* What mem0.search does: raises, or returns a dict holding the list under
\* "results" or "memories" (or holding neither), a bare list, or something else.
SearchOutcomes ==
    { [type |-> "raise", key |-> "none", items |-> << >>] }
    \cup { [type |-> "dict", key |-> k, items |-> l] :
               k \in { "results", "memories" }, l \in ItemLists }
    \cup { [type |-> "dict", key |-> "none", items |-> << >>],
           [type |-> "other", key |-> "none", items |-> << >>] }
    \cup { [type |-> "list", key |-> "none", items |-> l] : l \in ItemLists }

\* m.get("memory", m.get("text", "")) / m / str(m)
MemoryText(m) ==
    IF m.type = "dict"
    THEN IF m.key \in { "memory", "text" } THEN m.value ELSE ""
    ELSE m.value

RECURSIVE NonEmptyTexts(_)
\* for m in results_list: if memory_text: mem0_memories.append(memory_text)
NonEmptyTexts(items) ==
    IF items = << >> THEN << >>
    ELSE (IF MemoryText(Head(items)) # "" THEN << MemoryText(Head(items)) >> ELSE << >>)
         \o NonEmptyTexts(Tail(items))

\* Mutant: the search result is used without looking at self.mem0.
SearchMemories_NoGuard(available, outcome) ==
    IF outcome.type \in { "dict", "list" } THEN NonEmptyTexts(outcome.items)
    ELSE << >>

\* Mutant: mem0_results.get("results", []), the key "memories" is not read.
SearchMemories_ResultsOnly(available, outcome) ==
    IF ~available THEN << >>
    ELSE IF outcome.type = "raise" THEN << >>
    ELSE IF outcome.type = "dict"
    THEN (IF outcome.key = "results" THEN NonEmptyTexts(outcome.items) ELSE << >>)
    ELSE IF outcome.type = "list" THEN NonEmptyTexts(outcome.items)
    ELSE << >>

\* The mem0_memories of _send_message: [] when mem0 is None or search raises.
SearchMemories(available, outcome) ==
    IF ~available THEN << >>
    ELSE IF outcome.type = "raise" THEN << >>
    ELSE IF outcome.type = "dict"
    THEN (IF outcome.key \in { "results", "memories" }
          THEN NonEmptyTexts(outcome.items) ELSE << >>)
    ELSE IF outcome.type = "list" THEN NonEmptyTexts(outcome.items)
    ELSE << >>


\* ------------------------------------------------------------------ state
St ==
    [store |-> store, clock |-> clock, nextMsgId |-> nextMsgId,
     nextConvId |-> nextConvId, cur |-> current_conversation_id,
     widgets |-> message_widgets, ret |-> ret, listable |-> TRUE]

\* The handlers of TutorApp drop what the store returns to them.
Commit(S) ==
    /\ store' = S.store
    /\ clock' = S.clock
    /\ nextMsgId' = S.nextMsgId
    /\ nextConvId' = S.nextConvId
    /\ current_conversation_id' = S.cur
    /\ message_widgets' = S.widgets
    /\ UNCHANGED ret

\* mem0.search was not called
NoSearch == [type |-> "not called", key |-> "none", items |-> << >>]

\* The get_response thread: where it is, the values its closure holds
\* (message, conversation_history, mem0_memories), what the router answered
\* and returned, and the model calls it has made. History of its turn:
\* userId/userConv, the id and conversation of the user message
\* _send_message stored (0: none), whether the memory search raised, and the
\* str(e) of the exception the execution model raised ("": none), and what
\* mem0.search did for _send_message.
IdleWorker ==
    [pc |-> "idle", message |-> NoText, conversation_history |-> << >>,
     mem0_memories |-> << >>, response |-> NoResponse, route |-> NoRoute,
     invoked |-> << >>, userId |-> 0, userConv |-> NoId, searchRaised |-> FALSE,
     execRaised |-> "", search |-> NoSearch]

\* An empty data directory before _initialize_app
EmptyDisk ==
    [store |-> [c \in ConvIds |-> NoFile], clock |-> 1, nextMsgId |-> 1,
     nextConvId |-> 1, cur |-> NoId, widgets |-> {}, ret |-> Returned(TRUE, 0),
     listable |-> TRUE]

InitRest ==
    /\ is_processing = FALSE
    /\ input_enabled = TRUE
    /\ pending_user_message = NoText
    /\ mem0_records = {}
    /\ worker = IdleWorker
    /\ afterQueue = << >>
    /\ mem0Threads = {}
    /\ turn = 0
    /\ called = NoCalled

InitDisk(S) ==
    /\ store = S.store
    /\ clock = S.clock
    /\ nextMsgId = S.nextMsgId
    /\ nextConvId = S.nextConvId
    /\ current_conversation_id = S.cur
    /\ message_widgets = S.widgets
    /\ ret = Returned(TRUE, 0)

\* _initialize_app on an empty data directory: _load_conversations creates
\* the first conversation and selects it. The mem0ai package is not installed
\* (MEM0_AVAILABLE is False, self.mem0 stays None).
Init ==
    /\ InitDisk(_load_conversations(EmptyDisk))
    /\ mem0_available = FALSE
    /\ InitRest

\* ---------------------------------------------------------------- a turn
\* Mutant: only a blank message is ignored.
SendIgnored_BlankOnly(processing, message) == message.len = 0

\* if self.is_processing or not message.strip(): return
SendIgnored(processing, message) == processing \/ message.len = 0

\* _send_message(message, model) up to the start of the worker thread; a
\* request that returns at once changes nothing and is no step. keep: the
\* worker record remembers what mem0.search did (history).
_send_message(message, outcome, keep) ==
    /\ ~SendIgnored(is_processing, message)
    /\ turn < MaxTurns
    /\ LET S1 == IF current_conversation_id # NoId
                 THEN add_message_to_conversation(St, current_conversation_id,
                                                  "user", message)
                 ELSE St
           conversation_history ==
               IF current_conversation_id # NoId
               THEN load_conversation(S1, current_conversation_id)
               ELSE << >>
       IN /\ Commit(S1)
          /\ worker' = [IdleWorker EXCEPT
                            !.pc = "routing",
                            !.message = message,
                            !.conversation_history = conversation_history,
                            !.mem0_memories = SearchMemories(mem0_available, outcome),
                            !.userId = IF S1.ret.ok /\ current_conversation_id # NoId
                                       THEN nextMsgId ELSE 0,
                            !.userConv = current_conversation_id,
                            !.searchRaised = mem0_available /\ outcome.type = "raise",
                            !.search = IF keep /\ mem0_available
                                       THEN outcome ELSE NoSearch]
    /\ is_processing' = TRUE
    /\ input_enabled' = FALSE
    /\ pending_user_message' = message
    /\ turn' = turn + 1
    /\ UNCHANGED << mem0_available, mem0_records, afterQueue, mem0Threads, called >>

\* Mutant: a routing call that raised is made once more.
RoutingCalls_Retry(response) ==
    IF response.kind = "raise" THEN << RouterCall, RouterCall >> ELSE << RouterCall >>

\* The model calls _route_message makes: one ollama.chat, whatever it does
RoutingCalls(response) == << RouterCall >>

Send(message, outcome) == _send_message(message, outcome, FALSE)

\* get_response, first half: chat_with_tutor calls _route_message
WorkerRoute(response) ==
    /\ worker.pc = "routing"
    /\ worker' = [worker EXCEPT !.pc = "executing",
                                !.response = response,
                                !.route = _route_message(response),
                                !.invoked = @ \o RoutingCalls(response)]
    /\ UNCHANGED << store, clock, nextMsgId, nextConvId, current_conversation_id,
                    message_widgets, is_processing, input_enabled,
                    pending_user_message, mem0_available, mem0_records,
                    afterQueue, mem0Threads, turn, ret, called >>

\* get_response, second half: chat_with_tutor calls _execute_and_respond and
\* returns; the reply is handed to the main thread with self.after(0, ...)
WorkerExecute(outcome) ==
    /\ worker.pc = "executing"
    /\ LET executed == _execute_and_respond(worker.route.tool, worker.route.args,
                                            worker.message, worker.mem0_memories,
                                            worker.conversation_history, outcome)
           result == chat_with_tutor(worker.route, executed)
       IN /\ afterQueue' = Append(afterQueue, get_response(result))
          /\ worker' = [worker EXCEPT
                            !.pc = IF result.raised THEN "raised" ELSE "done",
                            !.invoked = IF executed.call.llm # "none"
                                        THEN Append(@, executed.call) ELSE @,
                            !.execRaised = IF executed.call.llm # "none"
                                           THEN outcome.err ELSE ""]
    /\ UNCHANGED << store, clock, nextMsgId, nextConvId, current_conversation_id,
                    message_widgets, is_processing, input_enabled,
                    pending_user_message, mem0_available, mem0_records,
                    mem0Threads, turn, ret, called >>

\* Mutant: mem0.add is called in the handler itself and its exception leaves
\* the handler before is_processing is reset.
_handle_response_AddInline(response) ==
    /\ Commit(IF current_conversation_id # NoId
              THEN _update_conversation_title(
                       add_message_to_conversation(St, current_conversation_id,
                                                   "assistant", response))
              ELSE St)
    /\ mem0Threads' = mem0Threads
    /\ is_processing' = (mem0_available /\ pending_user_message # NoText)
    /\ input_enabled' = ~(mem0_available /\ pending_user_message # NoText)

\* Mutant: the reply is appended to the list _send_message loaded for the
\* worker, and that list is written back: a read-modify-write whose read is
\* the turn's first step and whose write is its last.
_handle_response_StaleHistory(response) ==
    /\ Commit(IF current_conversation_id # NoId
              THEN _update_conversation_title(
                       add_message_to_conversation(
                           [St EXCEPT !.store[current_conversation_id].messages =
                                          worker.conversation_history],
                           current_conversation_id, "assistant", response))
              ELSE St)
    /\ mem0Threads' = mem0Threads
    /\ is_processing' = FALSE
    /\ input_enabled' = TRUE

\* _handle_response(response), run by the Tk main loop
_handle_response(response) ==
    /\ Commit(IF current_conversation_id # NoId
              THEN _update_conversation_title(
                       add_message_to_conversation(St, current_conversation_id,
                                                   "assistant", response))
              ELSE St)
    /\ mem0Threads' = IF mem0_available /\ pending_user_message # NoText
                      THEN mem0Threads \cup { [turn |-> turn, response |-> response,
                                             message |-> worker.message] }
                      ELSE mem0Threads
    /\ is_processing' = FALSE
    /\ input_enabled' = TRUE

\* The main loop runs the next self.after callback; the worker thread has
\* ended. A lambda that reads the unbound e raises NameError in the main loop
\* and nothing else happens.
HandleResponse(bound) ==
    /\ afterQueue # << >>
    /\ bound \in (IF Head(afterQueue).unbound THEN BOOLEAN ELSE { TRUE })
    /\ afterQueue' = Tail(afterQueue)
    /\ worker' = IdleWorker
    /\ IF bound
       THEN _handle_response(Head(afterQueue).response)
       ELSE UNCHANGED << store, clock, nextMsgId, nextConvId,
                         current_conversation_id, message_widgets, ret,
                         mem0Threads, is_processing, input_enabled >>
    /\ UNCHANGED << pending_user_message, mem0_available, mem0_records, turn,
                    called >>

\* self.user_id without a profile
user_id == "local_user"

\* mem0.add(messages, user_id=self.user_id) is given no metadata argument:
\* the set of (key, value) pairs of the record's metadata is empty.
NoMetadata == {}

\* A store_in_mem0 thread: reads self._pending_user_message when it runs, then
\* mem0.add(messages, user_id=...), which may raise (logged, nothing stored).
\* The thread's closure holds response; t.turn and t.message (the number and
\* the user message of the turn that started it) are history.
Mem0Store(t, added) ==
    /\ t \in mem0Threads
    /\ mem0Threads' = mem0Threads \ { t }
    /\ mem0_records' = IF added
                       THEN mem0_records \cup
                                { [said |-> pending_user_message,
                                   responded |-> t.response,
                                   user_id |-> user_id,
                                   metadata |-> NoMetadata] }
                       ELSE mem0_records
    /\ UNCHANGED << store, clock, nextMsgId, nextConvId, current_conversation_id,
                    message_widgets, is_processing, input_enabled,
                    pending_user_message, mem0_available, worker, afterQueue,
                    turn, ret, called >>

\* -------------------------------------------- what the user does meanwhile
\* None of these handlers looks at is_processing: the sidebar, the Clear
\* button and the delete buttons stay active while a turn is in flight.
turnVars ==
    << is_processing, input_enabled, pending_user_message, mem0_available,
       mem0_records, worker, afterQueue, mem0Threads, turn, called >>

NewChat ==
    /\ nextConvId <= MaxConvs
    /\ Commit(_new_chat(St))
    /\ UNCHANGED turnVars

SelectConversation(conversation_id) ==
    /\ conversation_id \in Existing(St)
    /\ Commit(_select_conversation(St, conversation_id))
    /\ UNCHANGED turnVars

DeleteConversation(conversation_id) ==
    /\ conversation_id \in Existing(St)
    /\ Existing(St) # { conversation_id } \/ nextConvId <= MaxConvs
    /\ Commit(_delete_conversation(St, conversation_id))
    /\ UNCHANGED turnVars

\* A click on the delete button of a message widget
DeleteMessage(message_id) ==
    /\ message_id \in message_widgets
    /\ Commit(_delete_message(St, message_id))
    /\ UNCHANGED turnVars

ClearChat ==
    /\ clock < MaxClock
    /\ Commit(_clear_chat(St))
    /\ UNCHANGED turnVars

\* ------------------------------------------------------- specifications
\* The application with its user: one representative of each kind of input.
CoreMessages == { Text("user", "hola", "", 4) }
CoreResponses ==
    { [kind |-> "text", name |-> "content", payload |-> NoPayload, err |-> ""],
      [kind |-> "tool_call", name |-> "teach",
       payload |-> [form |-> "other", value |-> "none"], err |-> ""] }
CoreOutcomes ==
    { [ok |-> TRUE, content |-> "  salida  ", err |-> ""],
      [ok |-> FALSE, content |-> "", err |-> "timeout"] }

Next ==
    \/ \E message \in CoreMessages : Send(message, NoSearch)
    \/ \E response \in CoreResponses : WorkerRoute(response)
    \/ \E outcome \in CoreOutcomes : WorkerExecute(outcome)
    \/ \E bound \in BOOLEAN : HandleResponse(bound)
    \/ NewChat
    \/ \E c \in ConvIds : SelectConversation(c)
    \/ \E c \in ConvIds : DeleteConversation(c)
    \/ \E m \in 1..(nextMsgId - 1) : DeleteMessage(m)
    \/ ClearChat

Spec == Init /\ [][Next]_vars


\* A session that finds a conversation of k messages on disk, left there by
\* earlier turns, and in which the user only sends messages: every kind of
\* input the backends can produce.
PriorBodies ==
    << "uno", "dos", "tres", "cuatro", "cinco", "seis", "siete", "ocho",
       "nueve", "diez", "once", "doce" >>

\* len() of each of them
PriorLens == << 3, 3, 4, 6, 5, 4, 5, 4, 5, 4, 4, 4 >>

PriorMessages(k) ==
    [i \in 1..k |->
        [id |-> i,
         role |-> IF i % 2 = 1 THEN "user" ELSE "assistant",
         content |-> Text(IF i % 2 = 1 THEN "user" ELSE "answer",
                          PriorBodies[i], "", PriorLens[i]),
         timestamp |-> i + 1]]

PriorDisk(k) ==
    [EmptyDisk EXCEPT
        !.store[1] = [exists |-> TRUE, readable |-> TRUE,
                      title |-> IF k = 0 THEN DefaultTitle
                                ELSE TitleFrom(PriorMessages(k)[1].content),
                      created_at |-> 1, updated_at |-> k + 1,
                      messages |-> PriorMessages(k)],
        !.clock = k + 2, !.nextMsgId = k + 1, !.nextConvId = 2]

TurnInit ==
    /\ \E k \in 0..MaxPrior : InitDisk(_load_conversations(PriorDisk(k)))
    /\ mem0_available \in BOOLEAN
    /\ InitRest

TurnNext ==
    \/ \E message \in UserMessages, outcome \in SearchOutcomes :
           turn < MaxSends /\ Send(message, outcome)
    \/ \E response \in RouterResponses : WorkerRoute(response)
    \/ \E outcome \in LlmOutcomes : WorkerExecute(outcome)
    \/ \E bound \in BOOLEAN : HandleResponse(bound)
    \/ \E t \in mem0Threads, added \in BOOLEAN : Mem0Store(t, added)

TurnSpec == TurnInit /\ [][TurnNext]_vars

\* The turns of TurnSpec with a few backend answers and every answer of the
\* memory search, which the worker record remembers.
SearchNext ==
    \/ \E message \in UserMessages, outcome \in SearchOutcomes :
           turn < MaxSends /\ _send_message(message, outcome, TRUE)
    \/ \E response \in CoreResponses : WorkerRoute(response)
    \/ \E outcome \in CoreOutcomes : WorkerExecute(outcome)
    \/ \E bound \in BOOLEAN : HandleResponse(bound)
    \/ \E t \in mem0Threads, added \in BOOLEAN : Mem0Store(t, added)

SearchSpec == TurnInit /\ [][SearchNext]_vars

\* The store as a library: any call, on any conversation id and message id.
CommitStore(S, op, cid, mid) ==
    /\ store' = S.store
    /\ clock' = S.clock
    /\ nextMsgId' = S.nextMsgId
    /\ nextConvId' = S.nextConvId
    /\ ret' = S.ret
    /\ called' = Called(op, cid, mid)
    /\ UNCHANGED << current_conversation_id, message_widgets, is_processing,
                    input_enabled, pending_user_message, mem0_available,
                    mem0_records, worker, afterQueue, mem0Threads, turn >>

Roles == { "user", "assistant" }

StoreCreate ==
    /\ nextConvId <= MaxConvs
    /\ CommitStore(create_new_conversation(St), "create", nextConvId, 0)

StoreAppend(cid, role, content) ==
    /\ clock < MaxClock
    /\ CommitStore(add_message_to_conversation(St, cid, role, content),
                   "append_message", cid, 0)

StoreDeleteMessage(cid, mid) ==
    CommitStore(delete_message_from_conversation(St, cid, mid),
                "delete_message", cid, mid)

StoreClear(cid) ==
    /\ clock < MaxClock
    /\ CommitStore(clear_conversation(St, cid), "clear", cid, 0)

StoreRename(cid, title) ==
    /\ clock < MaxClock
    /\ CommitStore(update_conversation_title(St, cid, title), "rename", cid, 0)

StoreDelete(cid) ==
    CommitStore(delete_conversation(St, cid), "delete", cid, 0)

\* load_conversation(cid) returns a list on every path (the except branch
\* returns [] as well): ret.ok says that it returned, the list is
\* load_conversation(St, cid).
StoreLoad(cid) ==
    CommitStore([St EXCEPT !.ret = Returned(TRUE, 0)], "load", cid, 0)

StoreNext ==
    \/ StoreCreate
    \/ \E cid \in ConvIds : StoreLoad(cid)
    \/ \E cid \in ConvIds, role \in Roles, content \in CoreMessages :
           StoreAppend(cid, role, content)
    \/ \E cid \in ConvIds, mid \in 1..nextMsgId : StoreDeleteMessage(cid, mid)
    \/ \E cid \in ConvIds : StoreClear(cid)
    \/ \E cid \in ConvIds, message \in UserMessages : StoreRename(cid, TitleFrom(message))
    \/ \E cid \in ConvIds : StoreDelete(cid)

StoreSpec == Init /\ [][StoreNext]_vars


\* A session during which conversation files can disappear from the data
\* directory behind the application's back (removed by hand, by a second
\* instance, by a cleanup): the application keeps its
\* current_conversation_id, and the store's methods find no file.
FileLost(conversation_id) ==
    /\ FileExists(St, conversation_id)
    /\ store' = [store EXCEPT ![conversation_id] = NoFile]
    /\ UNCHANGED << clock, nextMsgId, nextConvId, current_conversation_id,
                    message_widgets, ret >>
    /\ UNCHANGED turnVars

FaultNext ==
    \/ \E message \in CoreMessages : Send(message, NoSearch)
    \/ \E response \in CoreResponses : WorkerRoute(response)
    \/ \E outcome \in CoreOutcomes : WorkerExecute(outcome)
    \/ \E bound \in BOOLEAN : HandleResponse(bound)
    \/ NewChat
    \/ \E c \in ConvIds : SelectConversation(c)
    \/ \E c \in ConvIds : FileLost(c)

FaultSpec == Init /\ [][FaultNext]_vars

\* A session that a crash ends (the process is killed, the machine loses
\* power). The store's methods write a record with
\*     with open(filepath, 'w') as f: json.dump(data, f, indent=2)
\* open(..., 'w') truncates the file and json.dump then writes the text
\* piece by piece: a crash in between leaves a part of the text.
Truncated(data) == [data EXCEPT !.readable = FALSE]

Crashed == [IdleWorker EXCEPT !.pc = "crashed"]

CoreSearch == { [type |-> "list", key |-> "none", items |-> << >>] }

CrashInit ==
    /\ InitDisk(_load_conversations(EmptyDisk))
    /\ mem0_available = TRUE
    /\ InitRest

Dies ==
    /\ worker' = Crashed
    /\ afterQueue' = << >>
    /\ mem0Threads' = {}
    /\ UNCHANGED << current_conversation_id, message_widgets, is_processing,
                    input_enabled, pending_user_message, mem0_available,
                    mem0_records, turn, ret, called >>

\* The crash falls between two writes: while the worker thread runs, or
\* after _handle_response has stored the reply and before store_in_mem0 has
\* added the memory.
Crash ==
    /\ worker.pc # "crashed"
    /\ is_processing \/ mem0Threads # {}
    /\ Dies
    /\ UNCHANGED << store, clock, nextMsgId, nextConvId >>

\* The crash falls into a write of the turn: of the user message in
\* _send_message, of the reply in _handle_response, or of the title in
\* _update_conversation_title (the reply is written by then).
CrashInWrite(point) ==
    /\ worker.pc # "crashed"
    /\ current_conversation_id # NoId
    /\ FileExists(St, current_conversation_id)
    /\ IF point = "user message" THEN ~is_processing /\ turn < MaxTurns
       ELSE afterQueue # << >>
    /\ LET S1 == IF point = "title"
                 THEN add_message_to_conversation(St, current_conversation_id,
                                                  "assistant",
                                                  Head(afterQueue).response)
                 ELSE St
       IN /\ store' = [S1.store EXCEPT ![current_conversation_id] = Truncated(@)]
          /\ clock' = S1.clock
          /\ nextMsgId' = S1.nextMsgId
          /\ nextConvId' = S1.nextConvId
    /\ Dies

WritePoints == { "user message", "reply", "title" }

\* Nothing runs after the crash: no thread, no callback, no handler.
CrashNext ==
    \/ \E message \in CoreMessages, outcome \in CoreSearch :
           worker.pc # "crashed" /\ Send(message, outcome)
    \/ \E response \in CoreResponses : WorkerRoute(response)
    \/ \E outcome \in CoreOutcomes : WorkerExecute(outcome)
    \/ \E bound \in BOOLEAN : HandleResponse(bound)
    \/ \E t \in mem0Threads, added \in BOOLEAN : Mem0Store(t, added)
    \/ Crash
    \/ \E point \in WritePoints : CrashInWrite(point)

CrashSpec == CrashInit /\ [][CrashNext]_vars

\* The application from its start, on an empty data directory whose listing
\* can fail (os.listdir raises, or the files are removed as they are
\* written): listable is what get_all_conversations meets during a handler.
StartInit ==
    /\ InitDisk(EmptyDisk)
    /\ mem0_available = FALSE
    /\ InitRest

\* _initialize_app: self._load_conversations()
Start(listable) ==
    /\ current_conversation_id = NoId
    /\ nextConvId = 1
    /\ Commit(_load_conversations([St EXCEPT !.listable = listable]))
    /\ UNCHANGED turnVars

\* The New Chat button
NewChatListing(listable) ==
    /\ current_conversation_id # NoId
    /\ nextConvId <= MaxConvs
    /\ Commit(_new_chat([St EXCEPT !.listable = listable]))
    /\ UNCHANGED turnVars

StartNext ==
    \/ \E listable \in BOOLEAN : Start(listable)
    \/ \E listable \in BOOLEAN : NewChatListing(listable)
    \/ \E message \in CoreMessages :
           current_conversation_id # NoId /\ Send(message, NoSearch)
    \/ \E response \in CoreResponses : WorkerRoute(response)
    \/ \E outcome \in CoreOutcomes : WorkerExecute(outcome)
    \/ \E bound \in BOOLEAN : HandleResponse(bound)
    \/ \E c \in ConvIds : SelectConversation(c)
    \/ \E c \in ConvIds : DeleteConversation(c)

StartSpec == StartInit /\ [][StartNext]_vars

\* A session of few turns during which the user keeps using the Clear button,
\* the delete buttons and the sidebar.
BusyNext ==
    \/ \E message \in CoreMessages : turn < MaxSends /\ Send(message, NoSearch)
    \/ \E response \in CoreResponses : WorkerRoute(response)
    \/ \E outcome \in CoreOutcomes : WorkerExecute(outcome)
    \/ \E bound \in BOOLEAN : HandleResponse(bound)
    \/ \E c \in ConvIds : SelectConversation(c)
    \/ \E m \in 1..(nextMsgId - 1) : DeleteMessage(m)
    \/ ClearChat

BusySpec == Init /\ [][BusyNext]_vars

\* A session with the memory index in which the user sends one message after
\* the other: the store_in_mem0 thread of a turn is a daemon thread that
\* nothing waits for, so it can run before or after the next _send_message.
MemoryNext ==
    \/ \E message \in UserMessages, outcome \in CoreSearch : Send(message, outcome)
    \/ \E response \in CoreResponses : WorkerRoute(response)
    \/ \E outcome \in CoreOutcomes : WorkerExecute(outcome)
    \/ \E bound \in BOOLEAN : HandleResponse(bound)
    \/ \E t \in mem0Threads, added \in BOOLEAN : Mem0Store(t, added)

MemorySpec == CrashInit /\ [][MemoryNext]_vars

\* The fairness the scheduling gives: a started thread runs, a backend call
\* returns or raises, and the Tk main loop runs the callbacks queued on it.
\* The main loop takes the oldest callback off its queue; in Next this is
\* the step HandleResponse, the only one that shortens afterQueue.
MainLoopRuns ==
    /\ afterQueue # << >>
    /\ afterQueue' = Tail(afterQueue)

FairSpec ==
    /\ Spec
    /\ WF_vars(\E response \in CoreResponses : WorkerRoute(response))
    /\ WF_vars(\E outcome \in CoreOutcomes : WorkerExecute(outcome))
    /\ WF_afterQueue(MainLoopRuns)

\* ============================================================ properties
\* The step in which _handle_response ends a turn. In its first state the
\* worker record still holds the turn's message and the id of the user
\* message; the reply, when it is stored, gets the id nextMsgId.
TurnFinishes == is_processing /\ ~is_processing'

Messages(c) == store[c].messages

\* C1: for every turn, once the turn has finished, the conversation store
\* contains the submitted user message, appended before the assistant reply
\* of the same turn.
C1_UserMessageKeptBeforeReply ==
    [][TurnFinishes =>
         \E c \in ConvIds :
             \E i \in 1..Len(store'[c].messages) :
                 /\ store'[c].messages[i].id = worker.userId
                 /\ store'[c].messages[i].role = "user"
                 /\ store'[c].messages[i].content = worker.message
                 /\ \A j \in 1..Len(store'[c].messages) :
                        store'[c].messages[j].id = nextMsgId => i < j]_vars

\* C2: when the execution model call fails with an error e, the turn ends
\* with a non-empty apology that contains the text of e, and after the turn
\* the conversation holds the user message and, right after it, that apology
\* as the assistant message.
C2_ApologyRecordedAfterUserMessage ==
    [][(TurnFinishes /\ worker.execRaised # "") =>
         LET apology == Head(afterQueue).response
         IN /\ apology.kind \in { "sorry_error", "sorry_translating" }
            /\ apology.detail = worker.execRaised
            /\ apology.len > 0
            /\ \E c \in ConvIds :
                   \E i \in 1..(Len(store'[c].messages) - 1) :
                       /\ store'[c].messages[i].id = worker.userId
                       /\ store'[c].messages[i].role = "user"
                       /\ store'[c].messages[i + 1].role = "assistant"
                       /\ store'[c].messages[i + 1].content = apology]_vars

\* C3: the conversation is never left half-written: when a turn returns to
\* Idle, the user message it appended is immediately followed, in its
\* conversation, by the assistant message of the same turn, also when the
\* user cleared, deleted or switched while the turn was in flight.
C3_NeverHalfWritten ==
    [][TurnFinishes =>
         \A c \in ConvIds :
             \A i \in 1..Len(store'[c].messages) :
                 store'[c].messages[i].id = worker.userId =>
                     /\ i < Len(store'[c].messages)
                     /\ store'[c].messages[i + 1].id = nextMsgId
                     /\ store'[c].messages[i + 1].role = "assistant"]_vars

\* C4: every turn that is started eventually returns to Idle, with the input
\* enabled again.
C4_TurnReturnsToIdle == is_processing ~> (~is_processing /\ input_enabled)

\* A turn that went through the success-False branch of get_response (the
\* router's arguments were no dict) has ended and its apology is stored.
C4_Witness ==
    /\ turn >= 1
    /\ ~is_processing
    /\ input_enabled
    /\ \E c \in ConvIds :
           \E i \in 1..Len(Messages(c)) :
               Messages(c)[i].content = SorryError(AttributeError)

\* C5: when the structured classification fails (the routing model returns
\* no tool call, or the routing call raises), _route_message returns the
\* chat action with an empty argument map; _route_message never raises.
C5_FailedClassificationRoutesToChat ==
    worker.pc \in { "executing", "done", "raised" } =>
        /\ ~worker.route.raised
        /\ worker.response.kind \in { "text", "raise" } =>
               worker.route = Route(FALSE, "chat", "empty")

\* The routing call raised and the turn went on with the chat action.
C5_Witness ==
    /\ worker.pc = "executing"
    /\ worker.response.kind = "raise"
    /\ worker.route.tool = "chat"

\* C6: for every response of the routing model, the action the router
\* returns is one of translate, teach, exercise, chat.
C6_RouterActionInFixedSet ==
    worker.pc \in { "executing", "done", "raised" } =>
        worker.route.tool \in TUTOR_TOOLS

\* C7: no routing, context or execution failure leaves a turn as an
\* exception: chat_with_tutor returns a value, and the turn hands one reply
\* to _handle_response.
C7_NoFailureEscapesTurn ==
    /\ worker.pc # "raised"
    /\ worker.pc = "done" =>
           /\ Len(afterQueue) = 1
           /\ ~afterQueue[1].unbound
           /\ afterQueue[1].response # NoText

\* The memory search raised, the router named translate with arguments that
\* are no map, and the turn ends with the apology for the AttributeError.
C7_Witness ==
    /\ worker.pc = "done"
    /\ worker.searchRaised
    /\ worker.route = Route(FALSE, "translate", "nonmap")
    /\ afterQueue = << Callback(SorryError(AttributeError), FALSE) >>

\* C8: when the memory index is not configured, or its search raises, the
\* memory list of the turn is empty, the turn goes on, and its history is the
\* one loaded from the conversation store.
C8_NoMemoryIndexGivesEmptyMemories ==
    (worker.pc # "idle" /\ (~mem0_available \/ worker.searchRaised)) =>
        /\ worker.mem0_memories = << >>
        /\ worker.pc \in { "routing", "executing", "done" }
        /\ worker.userConv \in ConvIds
        /\ worker.conversation_history = Messages(worker.userConv)

\* Without a memory index, a turn on a conversation with earlier messages has
\* called the reasoning model with no memories.
C8_Witness ==
    /\ ~mem0_available
    /\ worker.pc = "done"
    /\ Len(worker.conversation_history) > 1
    /\ \E k \in 1..Len(worker.invoked) :
           /\ worker.invoked[k].llm = "reasoning"
           /\ worker.invoked[k].memories = << >>
           /\ worker.invoked[k].conv # << >>

\* The lines of the prompt that the messages msgs give when only the last
\* six are kept, oldest first.
LastSixLines(msgs) ==
    LET n == Len(msgs)
        kept == IF n > 6 THEN 6 ELSE n
    IN [i \in 1..kept |->
            [role |-> msgs[n - kept + i].role,
             content |-> msgs[n - kept + i].content]]

\* C9: the recent history used for a turn is the last 6 messages of the
\* conversation in chronological order; with more than 6 messages the oldest
\* are dropped, with 6 or fewer all are used.
C9_RecentHistoryIsLastSix ==
    worker.pc = "done" =>
        \A k \in 1..Len(worker.invoked) :
            (worker.invoked[k].llm = "reasoning" /\ worker.invoked[k].task = "chat") =>
                worker.invoked[k].conv = LastSixLines(Messages(worker.userConv))

\* A chat turn on a conversation of more than six messages: the prompt holds
\* six lines, the last of them the user message of this turn.
C9_Witness ==
    /\ worker.pc = "done"
    /\ Len(Messages(worker.userConv)) > 6
    /\ \E k \in 1..Len(worker.invoked) :
           /\ worker.invoked[k].llm = "reasoning"
           /\ worker.invoked[k].task = "chat"
           /\ Len(worker.invoked[k].conv) = 6
           /\ worker.invoked[k].conv[6].content = worker.message

\* C10: delete_message on a message id that the conversation does not hold
\* returns false and leaves the record as it was (messages, title,
\* updated_at), every time it is called.
C10_DeleteAbsentMessageIsNoOp ==
    [][(called'.op = "delete_message"
        /\ called'.mid \notin MessageIds(load_conversation(St, called'.cid))) =>
           /\ ~ret'.ok
           /\ store' = store
           /\ clock' = clock]_vars

\* delete_message was called on a conversation of two or more messages with
\* an id that none of them has, and returned false.
C10_Witness ==
    /\ called.op = "delete_message"
    /\ ~ret.ok
    /\ called.cid \in Existing(St)
    /\ Len(Messages(called.cid)) >= 2
    /\ called.mid \notin MessageIds(Messages(called.cid))

\* The store after the step, as the record the store's methods work on.
StAfter ==
    [store |-> store', clock |-> clock', nextMsgId |-> nextMsgId',
     nextConvId |-> nextConvId', cur |-> current_conversation_id',
     widgets |-> message_widgets', ret |-> ret', listable |-> TRUE]

\* The ids of a sequence of conversation ids
Listed(conversations) == { conversations[i] : i \in 1..Len(conversations) }

\* C11: after clear on an existing conversation, load of it returns the
\* empty sequence, list_all still includes it, and its id and title are the
\* ones it had before.
C11_ClearKeepsIdentityAndTitle ==
    [][(called'.op = "clear" /\ FileExists(St, called'.cid)) =>
           /\ ret'.ok
           /\ load_conversation(StAfter, called'.cid) = << >>
           /\ called'.cid \in Listed(get_all_conversations(StAfter))
           /\ Existing(StAfter) = Existing(St)
           /\ store'[called'.cid].title = store[called'.cid].title
           /\ store'[called'.cid].created_at = store[called'.cid].created_at]_vars

\* A conversation that was renamed and had a message has been cleared: no
\* messages, the title it was given.
C11_Witness ==
    /\ called.op = "clear"
    /\ ret.ok
    /\ FileExists(St, called.cid)
    /\ Messages(called.cid) = << >>
    /\ store[called.cid].title # DefaultTitle
    /\ nextMsgId > 1

\* C12: load on an unknown conversation id fails with a NotFound outcome
\* that the caller can tell apart from the empty sequence an existing
\* conversation without messages gives.
C12_LoadOfUnknownIdIsNotFound ==
    [][(called'.op = "load" /\ ~FileExists(St, called'.cid)) =>
           \/ ~ret'.ok
           \/ load_conversation(St, called'.cid) # << >>]_vars

\* C13: append_message on an unknown conversation id (never created, or
\* deleted) fails, appends nothing and creates no record: the conversations
\* and their messages are the same before and after.
C13_AppendToUnknownIdChangesNothing ==
    [][(called'.op = "append_message" /\ ~FileExists(St, called'.cid)) =>
           /\ ~ret'.ok
           /\ store' = store
           /\ Existing(StAfter) = Existing(St)
           /\ nextMsgId' = nextMsgId]_vars

\* append_message was called on the id of a deleted conversation, while
\* another conversation holds messages, and returned false.
C13_Witness ==
    /\ called.op = "append_message"
    /\ ~ret.ok
    /\ ~FileExists(St, called.cid)
    /\ called.cid < nextConvId
    /\ \E d \in Existing(St) : Messages(d) # << >>

\* The title a first message is to give: the message itself up to 50
\* characters, its first 50 characters and "..." beyond.
ExpectedTitle(first_msg) ==
    IF first_msg.len <= 50
    THEN TitleText(first_msg, first_msg.len, FALSE)
    ELSE TitleText(first_msg, 50, TRUE)

\* C14: after the first turn of a brand-new conversation (the user message
\* of the turn was its only message), the title of the conversation is that
\* message when it has at most 50 characters, and its first 50 characters
\* followed by "..." when it has more.
C14_FirstTurnSetsTitle ==
    [][(TurnFinishes /\ Len(worker.conversation_history) = 1) =>
           /\ store'[worker.userConv].exists
           /\ store'[worker.userConv].title = ExpectedTitle(worker.message)]_vars

\* C15: a turn derives and stores the title only when its user message is
\* the only message of the conversation; a later turn (the conversation held
\* messages before its user message) leaves the stored title as it was, also
\* after the first message was deleted. Stated for the turns during which the
\* user touched nothing: the conversation is still the current one and holds
\* what the turn loaded.
C15_LaterTurnsKeepTitle ==
    [][(/\ TurnFinishes
        /\ Len(worker.conversation_history) > 1
        /\ current_conversation_id = worker.userConv
        /\ load_conversation(St, worker.userConv) = worker.conversation_history) =>
           store'[worker.userConv].title = store[worker.userConv].title]_vars

\* C16: the memory-index add of a turn never delays or fails the turn. The
\* step that handles the reply stores it, returns to Idle and enables the
\* input while the add of the turn has not run yet; and when the add runs,
\* succeeding or raising, it changes neither the conversations nor the
\* state of the orchestrator.
C16_MemoryAddDoesNotHoldTheTurn ==
    [][/\ MainLoopRuns =>
              /\ ~is_processing'
              /\ input_enabled'
              /\ mem0_available => \E t \in mem0Threads' : t \notin mem0Threads
              /\ LET saved == store'[current_conversation_id'].messages
                 IN /\ saved # << >>
                    /\ saved[Len(saved)].role = "assistant"
                    /\ saved[Len(saved)].content = Head(afterQueue).response
       /\ (mem0Threads' # mem0Threads /\ ~MainLoopRuns) =>
              /\ store' = store
              /\ is_processing' = is_processing
              /\ input_enabled' = input_enabled]_vars

\* The orchestrator is Idle again, the reply is stored, and the add of the
\* turn has not finished.
C16_Witness ==
    /\ turn >= 1
    /\ ~is_processing
    /\ input_enabled
    /\ mem0Threads # {}
    /\ mem0_records = {}
    /\ \E c \in ConvIds :
           /\ Messages(c) # << >>
           /\ Messages(c)[Len(Messages(c))].role = "assistant"

\* C17: after any sequence of append_message and delete_message operations,
\* load returns the surviving messages in the order in which they were
\* appended (the model hands out ids in that order), and no two
\* messages of a conversation have the same id.
C17_MessagesStayInAppendOrder ==
    \A c \in Existing(St) :
        LET msgs == load_conversation(St, c)
        IN \A i, j \in 1..Len(msgs) :
               i < j => msgs[i].id < msgs[j].id

\* Three messages were appended to a conversation and the one in the middle
\* was deleted: the first and the last remain.
C17_Witness ==
    /\ called.op = "delete_message"
    /\ ret.ok
    /\ FileExists(St, called.cid)
    /\ Len(Messages(called.cid)) = 2
    /\ Messages(called.cid)[1].id < called.mid
    /\ called.mid < Messages(called.cid)[2].id

\* C18: list_all returns one summary per existing conversation, ordered by
\* updated_at descending, so that the conversation an append, rename, clear
\* or successful delete_message has just changed comes first (called and ret
\* are the last call on the store and what it returned).
C18_ListIsMostRecentFirst ==
    LET listed == get_all_conversations(St)
    IN /\ Len(listed) = Cardinality(Existing(St))
       /\ Listed(listed) = Existing(St)
       /\ \A i \in 1..(Len(listed) - 1) :
              store[listed[i]].updated_at >= store[listed[i + 1]].updated_at
       /\ (/\ called.op \in { "append_message", "rename", "clear",
                              "delete_message" }
           /\ ret.ok) => listed[1] = called.cid

\* Two conversations exist; a message was appended to the one created
\* first, and that one is listed first.
C18_Witness ==
    /\ called.op = "append_message"
    /\ ret.ok
    /\ Cardinality(Existing(St)) = 2
    /\ \E d \in Existing(St) :
           store[d].created_at > store[called.cid].created_at
    /\ get_all_conversations(St)[1] = called.cid

\* What a reply can be: an answer, a translation or an apology for a failed
\* model call. None of them speaks of the store.
OrdinaryReplies == { "answer", "translation", "sorry_error", "sorry_translating" }

\* C19: when the write of a turn's user message or of its assistant reply
\* fails (here: the conversation file is no longer there), the failure is
\* shown to the caller of the turn: the turn does not end like one whose
\* writes succeeded, with an ordinary reply and the input enabled again.
C19_FailedWriteIsSurfaced ==
    [][(/\ TurnFinishes
        /\ \/ worker.userConv # NoId /\ worker.userId = 0
           \/ /\ current_conversation_id # NoId
              /\ ~FileExists(St, current_conversation_id)) =>
           \/ ~input_enabled'
           \/ Head(afterQueue).response.kind \notin OrdinaryReplies]_vars

\* C20: a crash at any point of a turn leaves every conversation record
\* readable (and equal to its state before or after one completed store
\* operation); only the memory record of the turn can be lost.
C20_CrashLeavesRecordsReadable ==
    worker.pc = "crashed" =>
        \A c \in ConvIds : store[c].exists => store[c].readable

\* Replies that only the translate branch of _execute_and_respond builds
TranslateReplies == { "translation", "sorry_translating" }

\* C21: once the memory write of a turn routed to translate has settled, the
\* memory index holds a record of that user with category "translation":
\* every stored record of a translate turn carries that category.
C21_TranslateTurnRecordsCategory ==
    \A r \in mem0_records :
        r.responded.kind \in TranslateReplies =>
            /\ r.user_id = user_id
            /\ << "category", "translation" >> \in r.metadata

\* The conversations that hold the message with this id after the step
HoldersAfter(message_id) ==
    { c \in ConvIds :
        \E j \in 1..Len(store'[c].messages) : store'[c].messages[j].id = message_id }

\* C22: the assistant reply of a turn is appended to the conversation to
\* which the turn's user message was appended, and to no other one, also when
\* the user selected, created or deleted a conversation during the turn.
C22_ReplyGoesToTheTurnsConversation ==
    [][(TurnFinishes /\ worker.userId # 0) =>
         /\ HoldersAfter(nextMsgId) \subseteq { worker.userConv }
         /\ store'[worker.userConv].exists =>
                worker.userConv \in HoldersAfter(nextMsgId)]_vars

\* C23: the memory record a store_in_mem0 thread writes pairs the user
\* message of the thread's own turn with the reply of that turn, also when
\* the next turn has started before the thread runs.
C23_MemoryRecordPairsOneTurn ==
    [][\A t \in mem0Threads :
          (t \notin mem0Threads' /\ mem0_records' # mem0_records) =>
              \E r \in mem0_records' \ mem0_records :
                  r.said = t.message /\ r.responded = t.response]_vars

\* Backend work of turns that is under way: the worker thread before it has
\* handed over its reply, and the replies waiting for the main loop.
InFlight ==
    (IF worker.pc \in { "routing", "executing" } THEN 1 ELSE 0) + Len(afterQueue)

\* C24: turns never overlap. While a turn is being processed no step starts
\* a turn, appends a user message to any conversation or starts a routing
\* call; is_processing changes only when the reply is handled; and there is
\* exactly one worker or pending reply.
C24_TurnsNeverOverlap ==
    [][is_processing =>
         /\ InFlight = 1
         /\ turn' = turn
         /\ \A c \in ConvIds :
                \A j \in 1..Len(store'[c].messages) :
                    store'[c].messages[j].id = nextMsgId =>
                        store'[c].messages[j].role = "assistant"
         /\ worker'.pc = "routing" => worker' = worker
         /\ ~is_processing' => MainLoopRuns]_vars

\* The second turn of a session is in flight: it was started after the reply
\* of the first one had been handled.
C24_Witness ==
    /\ turn = 2
    /\ is_processing
    /\ worker.pc = "executing"
    /\ Len(store[worker.userConv].messages) = 3

\* The message add_message_to_conversation builds in the coming step
NewMessage(role, content) ==
    [id |-> nextMsgId, role |-> role, content |-> content, timestamp |-> clock]

\* C25: no update to a conversation is lost. The store calls of a turn and
\* those of the Clear and delete buttons pressed during the turn run one
\* after the other, each on the record the one before it left: what the user
\* does while a turn is in flight removes messages only (a clear, a
\* delete_message, the deletion of a conversation) from the record as it is
\* then, and the reply is appended to the record as it is when it arrives.
C25_NoUpdateIsLost ==
    [][/\ (/\ TurnFinishes
           /\ current_conversation_id # NoId
           /\ FileExists(St, current_conversation_id)) =>
              store'[current_conversation_id].messages =
                  Append(store[current_conversation_id].messages,
                         NewMessage("assistant", Head(afterQueue).response))
       /\ (is_processing /\ is_processing') =>
              \A c \in ConvIds :
                  \/ store'[c].messages = store[c].messages
                  \/ store'[c].messages = << >>
                  \/ \E m \in MessageIds(store[c].messages) :
                         store'[c].messages = WithoutId(store[c].messages, m)]_vars

\* The conversation of a turn was emptied while the turn was in flight, and
\* the reply waits for the main loop.
C25_Witness ==
    /\ is_processing
    /\ afterQueue # << >>
    /\ worker.userId # 0
    /\ worker.userConv = current_conversation_id
    /\ store[current_conversation_id].exists
    /\ store[current_conversation_id].messages = << >>

\* The model calls of a worker after the routing call
ExecutionCalls == Tail(worker.invoked)

\* C26: the executor invokes the translation model if and only if the routed
\* action is translate; for teach, exercise, chat and any other action name
\* it invokes the general reasoning model and never the translation model.
C26_ModelFollowsAction ==
    worker.pc \in { "done", "raised" } =>
        /\ Len(ExecutionCalls) = 1
        /\ ExecutionCalls[1].llm =
               IF worker.route.tool = "translate" THEN "translation" ELSE "reasoning"

\* C27: each call of chat_with_tutor makes exactly one routing-model call,
\* also when that call fails, followed by at most one execution-model call;
\* the execution call starts only after the routing call has returned or
\* failed.
C27_OneRoutingThenAtMostOneExecution ==
    /\ worker.pc \in { "idle", "routing" } => worker.invoked = << >>
    /\ worker.pc = "executing" =>
           worker.invoked = << RouterCall >> /\ worker.response # NoResponse
    /\ worker.pc \in { "done", "raised" } =>
           /\ Len(worker.invoked) \in { 1, 2 }
           /\ worker.invoked[1] = RouterCall
           /\ \A i \in 2..Len(worker.invoked) :
                  worker.invoked[i].llm \in { "translation", "reasoning" }

\* The routing call raised, and the turn went on to its one execution call.
C27_Witness ==
    /\ worker.pc = "done"
    /\ worker.response.kind = "raise"
    /\ Len(worker.invoked) = 2
    /\ worker.invoked[2].llm = "reasoning"

\* The texts of the entries of a result list, in its order, without the
\* empty ones
TextsInOrder(items) ==
    SelectSeq([i \in 1..Len(items) |-> MemoryText(items[i])], LAMBDA x : x # "")

\* The result shapes that are documented
DocumentedShape(result) ==
    \/ result.type = "dict" /\ result.key \in { "results", "memories" }
    \/ result.type = "list"

\* C28: for a search result that is a dict holding the list under "results",
\* a dict holding it under "memories", or a bare list, the memories of the
\* turn are the texts of exactly the returned entries that have a non-empty
\* text, in the backend's order.
C28_SearchResultsNormalized ==
    (worker.pc # "idle" /\ DocumentedShape(worker.search)) =>
        worker.mem0_memories = TextsInOrder(worker.search.items)

\* The result was a dict holding three entries under "memories", one of them
\* with an empty text.
C28_Witness ==
    /\ worker.pc = "routing"
    /\ worker.search.type = "dict"
    /\ worker.search.key = "memories"
    /\ Len(worker.search.items) = 3
    /\ worker.mem0_memories = << "lives in Lima", "studies at night" >>

\* The store operations that are given a conversation id and write
WritingOps == { "append_message", "delete_message", "clear", "rename", "delete" }

\* C29: delete removes a conversation entirely (list_all no longer holds it,
\* load finds nothing, a later append to it fails), and every operation on
\* one conversation id (append, delete_message, clear, rename, delete) leaves
\* the records of all other conversations as they were.
C29_DeleteRemovesAndOthersUntouched ==
    [][/\ called'.op \in WritingOps =>
              \A c \in ConvIds \ { called'.cid } : store'[c] = store[c]
       /\ (called'.op = "delete" /\ FileExists(St, called'.cid)) =>
              /\ ret'.ok
              /\ called'.cid \notin Listed(get_all_conversations(StAfter))
              /\ load_conversation(StAfter, called'.cid) = << >>
              /\ \A role \in Roles, content \in CoreMessages :
                     LET S1 == add_message_to_conversation(StAfter, called'.cid,
                                                           role, content)
                     IN ~S1.ret.ok /\ S1.store = store']_vars

\* A conversation was deleted after two or more appends, and another
\* conversation still holds its messages.
C29_Witness ==
    /\ called.op = "delete"
    /\ ret.ok
    /\ ~store[called.cid].exists
    /\ nextMsgId > 2
    /\ \E c \in Existing(St) : Len(Messages(c)) >= 1

\* C30: creating a new chat terminates and creates exactly one conversation,
\* which becomes the current one, also when the listing does not return the
\* record just created: a step that creates conversations creates one, and
\* selects it.
C30_NewChatCreatesExactlyOne ==
    [][nextConvId' # nextConvId =>
         /\ nextConvId' = nextConvId + 1
         /\ store'[nextConvId].exists
         /\ current_conversation_id' = nextConvId]_vars

====
